---- MODULE Spec2Model ----
(***************************************************************************)
(* A model of qinspect/middleware.py: the query analysis pipeline          *)
(* (normalisation, duplicate detection, the two limit checks, reporting),  *)
(* the traceback filter, the request hooks of QueryInspectMiddleware and   *)
(* the inspect_queries decorator.                                          *)
(*                                                                         *)
(* Conventions.                                                            *)
(*  - A text (an SQL statement, a file path) is a sequence of characters.  *)
(*  - A Python value that may be None is <<>> (None) or <<v>> (the value). *)
(*  - A time is an integer number of time units, UnitsPerMs units to the   *)
(*    millisecond; arithmetic on times is exact (the code uses doubles).   *)
(*  - A log line is a tuple: its kind followed by the values formatted     *)
(*    into it.                                                             *)
(***************************************************************************)
EXTENDS Integers, Sequences, FiniteSets

VARIABLES
    cfg,        \* the module-level configuration dict
    pc,         \* position of the function under analysis: "call" ... "return"
    arg,        \* the argument the function is applied to
    ret,        \* what the function returned and logged
    queries,    \* connection.queries, the query log
    local,      \* _local: per thread, None or [request_start, conn_queries_len]
    layers,     \* the number of tb_wrap layers around CursorDebugWrapper.execute
    now,        \* time.time()
    phase,      \* per thread: "idle", or in a request: "hooked" when the request's
                \* own process_request ran, "unhooked" when it did not
    wrap,       \* the frame of a running _wrapped call: None or [doit, start, conn_queries_len]
    last        \* the outcome of the latest process_response and of the latest _wrapped

vars == <<cfg, pc, arg, ret, queries, local, layers, now, phase, wrap, last>>

fnVars == <<pc, arg, ret>>
hookVars == <<queries, local, layers, now, phase, wrap, last>>

----------------------------------------------------------------------------
(* Bounds *)

MaxQueries == 4      \* longest sequence of queries handed to a check
MaxTime == 3         \* largest elapsed time of a query, in time units
UnitsPerMs == 2      \* time units per millisecond
MaxSqlLen == 4       \* longest raw SQL text normalised
MaxPathLen == 3      \* longest stack frame path
MaxRoots == 2        \* longest traceback_roots / traceback_roots_exclude
MaxLog == 2          \* longest query log
MaxClock == 1        \* latest time the clock reaches
MaxLayers == 3       \* most tb_wrap layers applied

----------------------------------------------------------------------------
(* Python values *)

None == <<>>
Some(v) == <<v>>
IsNone(o) == Len(o) = 0
Val(o) == o[1]

Abs(x) == IF x < 0 THEN -x ELSE x

\* int(x / d) for d > 0: truncation towards zero, as '%d' % float does
TruncDiv(x, d) == IF x >= 0 THEN x \div d ELSE -((-x) \div d)

\* '%d' % (t * 1000) for a time t held in time units
Millis(t) == TruncDiv(t, UnitsPerMs)

RECURSIVE SeqsUpTo(_, _)
SeqsUpTo(S, n) ==
    IF n = 0 THEN {<<>>}
    ELSE LET shorter == SeqsUpTo(S, n - 1)
         IN  shorter \cup {Append(s, x) : s \in {t \in shorter : Len(t) = n - 1}, x \in S}

RECURSIVE SumTimes(_)
SumTimes(details) ==
    IF details = <<>> THEN 0 ELSE Head(details).time + SumTimes(Tail(details))

----------------------------------------------------------------------------
(* Configuration: the defaults of the module *)

DefaultDuplicateLimit == 1

DefaultCfg ==
    [ enabled |-> FALSE,
      absolute_limit |-> None,
      header_stats |-> TRUE,
      log_all_queries |-> FALSE,
      log_duplicates |-> FALSE,
      log_stats |-> TRUE,
      log_tracebacks |-> FALSE,
      log_tracebacks_duplicate_limit |-> DefaultDuplicateLimit,
      standard_deviation_limit |-> None,
      traceback_roots |-> <<>>,
      traceback_roots_exclude |-> <<>> ]

----------------------------------------------------------------------------
(* Normalisation: sql_id_pattern.sub('= ?', sql) *)

Digits == {"1"}
Whitespace == {" "}
SqlChars == {"=", " ", "1", "x", "?"}

\* the first position at or after i whose character is not in S
RECURSIVE SkipWhile(_, _, _)
SkipWhile(s, i, S) ==
    IF i <= Len(s) /\ s[i] \in S THEN SkipWhile(s, i + 1, S) ELSE i

\* the end (exclusive) of a match of =\s*\d+ starting at i, or 0 when none
MatchEnd(s, i) ==
    IF i > Len(s) \/ s[i] # "=" THEN 0
    ELSE LET j == SkipWhile(s, i + 1, Whitespace)
             k == SkipWhile(s, j, Digits)
         IN  IF k > j THEN k ELSE 0

\* re.sub: left to right, every non-overlapping match replaced
RECURSIVE SubFrom(_, _)
SubFrom(s, i) ==
    IF i > Len(s) THEN <<>>
    ELSE LET e == MatchEnd(s, i)
         IN  IF e > 0 THEN <<"=", " ", "?">> \o SubFrom(s, e)
             ELSE <<s[i]>> \o SubFrom(s, i + 1)

\* a sub that stops after the first replacement (count=1)
SubFirstOnly(s) ==
    LET starts == {i \in 1..Len(s) : MatchEnd(s, i) > 0}
    IN  IF starts = {} THEN s
        ELSE LET i == CHOOSE m \in starts : \A o \in starts : m <= o
             IN  SubSeq(s, 1, i - 1) \o <<"=", " ", "?">>
                   \o SubSeq(s, MatchEnd(s, i), Len(s))

sql_id_sub(s) == SubFrom(s, 1)

----------------------------------------------------------------------------
(* Traceback filtering: patch_cursor.should_include *)

PathChars == {"a", "b", "c"}

\* __file__ of the module
ModuleFile == <<"b", "c">>

\* path.startswith(prefix)
StartsWith(path, prefix) ==
    Len(prefix) <= Len(path) /\ SubSeq(path, 1, Len(prefix)) = prefix

\* path == __file__ or path + 'c' == __file__
IsModuleFile(path) == path = ModuleFile \/ path \o <<"c">> = ModuleFile

\* for x in excludes: if path.startswith(x): return False / return True
RECURSIVE ExcludeLoop(_, _, _)
ExcludeLoop(path, excludes, j) ==
    IF j > Len(excludes) THEN TRUE
    ELSE IF StartsWith(path, excludes[j]) THEN FALSE
    ELSE ExcludeLoop(path, excludes, j + 1)

\* for root in roots: if path.startswith(root): ... / return False
RECURSIVE RootLoop(_, _, _, _)
RootLoop(path, roots, excludes, i) ==
    IF i > Len(roots) THEN FALSE
    ELSE IF StartsWith(path, roots[i]) THEN ExcludeLoop(path, excludes, 1)
    ELSE RootLoop(path, roots, excludes, i + 1)

\* a filter that forgets the exclusion list
should_include_any_root(path) ==
    IF IsModuleFile(path) THEN FALSE
    ELSE IF cfg.traceback_roots = <<>> THEN TRUE
    ELSE \E i \in 1..Len(cfg.traceback_roots) : StartsWith(path, cfg.traceback_roots[i])

should_include(path) ==
    IF IsModuleFile(path) THEN FALSE
    ELSE IF cfg.traceback_roots = <<>> THEN TRUE
    ELSE RootLoop(path, cfg.traceback_roots, cfg.traceback_roots_exclude, 1)

----------------------------------------------------------------------------
(* The analysis pipeline.  A QueryInfo is [sql, time, tb]. *)

QueryInfo(sql, time, tb) == [sql |-> sql, time |-> time, tb |-> tb]

\* get_query_details: records with sql None are dropped, the others normalised
RECURSIVE get_query_details(_)
get_query_details(qs) ==
    IF qs = <<>> THEN <<>>
    ELSE LET q == Head(qs)
         IN  IF IsNone(q.sql) THEN get_query_details(Tail(qs))
             ELSE <<QueryInfo(sql_id_sub(Val(q.sql)), q.time, q.tb)>>
                    \o get_query_details(Tail(qs))

\* the keys of buf, in the order the loop first inserts them
RECURSIVE BufKeys(_, _)
BufKeys(details, seen) ==
    IF details = <<>> THEN seen
    ELSE LET sql == Head(details).sql
         IN  IF \E i \in 1..Len(seen) : seen[i] = sql
             THEN BufKeys(Tail(details), seen)
             ELSE BufKeys(Tail(details), Append(seen, sql))

\* buf[sql] after the loop
BufCount(details, sql) == Cardinality({i \in 1..Len(details) : details[i].sql = sql})

\* sorted(items, key=count, reverse=True): stable, so an item goes after every
\* item whose count is at least its own
RECURSIVE SortedInsert(_, _)
SortedInsert(sorted, item) ==
    IF sorted = <<>> THEN <<item>>
    ELSE IF Head(sorted)[2] >= item[2] THEN <<Head(sorted)>> \o SortedInsert(Tail(sorted), item)
    ELSE <<item>> \o sorted

RECURSIVE SortItems(_, _)
SortItems(items, acc) ==
    IF items = <<>> THEN acc
    ELSE SortItems(Tail(items), SortedInsert(acc, Head(items)))

count_duplicates(details) ==
    LET keys == BufKeys(details, <<>>)
        items == [i \in 1..Len(keys) |-> <<keys[i], BufCount(details, keys[i])>>]
    IN  SortItems(items, <<>>)

\* group_queries(details)[sql]
group_queries(details, sql) == SelectSeq(details, LAMBDA qi : qi.sql = sql)

\* the traceback lines of one duplicate group: the first limit members, those with a
\* non-empty tb
RECURSIVE GroupTracebacks(_, _, _)
GroupTracebacks(members, idx, limit) ==
    IF idx > Len(members) \/ idx > limit THEN <<>>
    ELSE LET x == members[idx]
             line == IF ~IsNone(x.tb) /\ Val(x.tb) # <<>>
                     THEN << <<"traceback", idx, Val(x.tb)>> >>
                     ELSE <<>>
         IN  line \o GroupTracebacks(members, idx + 1, limit)

RECURSIVE DuplicateLines(_, _)
DuplicateLines(details, duplicates) ==
    IF duplicates = <<>> THEN <<>>
    ELSE LET sql == Head(duplicates)[1]
             num == Head(duplicates)[2]
             group == group_queries(details, sql)
             tbs == IF cfg.log_tracebacks /\ group # <<>>
                    THEN GroupTracebacks(group, 1, cfg.log_tracebacks_duplicate_limit)
                    ELSE <<>>
         IN  << <<"repeated", num, sql>> >> \o tbs
               \o DuplicateLines(details, Tail(duplicates))

log_duplicates(details, duplicates) ==
    IF ~cfg.log_duplicates THEN <<>> ELSE DuplicateLines(details, duplicates)

RECURSIVE SumNums(_)
SumNums(items) == IF items = <<>> THEN 0 ELSE Head(items)[2] + SumNums(Tail(items))

\* a count that forgets to subtract the first member of each group
check_duplicates_total(details) ==
    LET duplicates == SelectSeq(count_duplicates(details), LAMBDA el : el[2] > 1)
    IN  [n |-> IF Len(duplicates) > 0 THEN SumNums(duplicates) ELSE 0,
         log |-> log_duplicates(details, duplicates)]

\* check_duplicates: the number returned and the lines logged
check_duplicates(details) ==
    LET duplicates == SelectSeq(count_duplicates(details), LAMBDA el : el[2] > 1)
    IN  [n |-> IF Len(duplicates) > 0 THEN SumNums(duplicates) - Len(duplicates) ELSE 0,
         log |-> log_duplicates(details, duplicates)]

----------------------------------------------------------------------------
(* The limit checks *)

\* a comparison that is not strict
OverLimitOrAt(time, query_limit) == time >= query_limit

\* qi.time > query_limit, both in time units
OverLimit(time, query_limit) == time > query_limit

\* cfg['absolute_limit'] / 1000.0, a number of milliseconds as a time
AbsoluteQueryLimit == Val(cfg.absolute_limit) * UnitsPerMs

RECURSIVE AbsoluteLines(_)
AbsoluteLines(details) ==
    IF details = <<>> THEN <<>>
    ELSE LET qi == Head(details)
             line == IF OverLimit(qi.time, AbsoluteQueryLimit)
                     THEN << <<"absolute", Millis(qi.time), Millis(AbsoluteQueryLimit), qi.sql>> >>
                     ELSE <<>>
         IN  line \o AbsoluteLines(Tail(details))

\* a check that takes a limit of 0 for no limit (if not cfg['absolute_limit'])
check_absolute_limit_falsy(details) ==
    IF IsNone(cfg.absolute_limit) \/ Val(cfg.absolute_limit) = 0 \/ Len(details) = 0 THEN <<>>
    ELSE AbsoluteLines(details)

\* check_absolute_limit: the warnings logged
check_absolute_limit(details) ==
    IF IsNone(cfg.absolute_limit) \/ Len(details) = 0 THEN <<>>
    ELSE AbsoluteLines(details)

\* n * stddev_sum: the sum over the queries of |n * qi.time - total|
RECURSIVE DeviationSum(_, _, _)
DeviationSum(details, n, total) ==
    IF details = <<>> THEN 0
    ELSE Abs(n * Head(details).time - total) + DeviationSum(Tail(details), n, total)

\* a > l * sqrt(d / m), for d >= 0 and m > 0, decided on the squares
AboveScaledRoot(a, l, d, m) ==
    IF l >= 0 THEN a > 0 /\ a * a * m > l * l * d
    ELSE a > 0 \/ a * a * m < l * l * d

\* time units per second: the times of the code are seconds
UnitsPerSecond == 1000 * UnitsPerMs

\* qi.time > mean + stddev * the_limit, where mean = total / n and
\* stddev = 0 for n < 2, else sqrt((1 / (n - 1)) * (stddev_sum / n)).  In seconds
\* qi.time = time / U, mean = total / (n * U) and stddev_sum = D / (n * U), U the
\* UnitsPerSecond and D the DeviationSum; with both sides multiplied by n * U the
\* comparison is n * time - total > the_limit * sqrt(U * D / (n - 1))
OverStddevLimit(time, details, the_limit) ==
    LET n == Len(details)
        total == SumTimes(details)
    IN  IF n < 2 THEN OverLimit(n * time, total)
        ELSE AboveScaledRoot(n * time - total, the_limit,
                             UnitsPerSecond * DeviationSum(details, n, total), n - 1)

RECURSIVE StddevLines(_, _, _)
StddevLines(rest, details, the_limit) ==
    IF rest = <<>> THEN <<>>
    ELSE LET qi == Head(rest)
             line == IF OverStddevLimit(qi.time, details, the_limit)
                     THEN << <<"stddev", Millis(qi.time), the_limit, qi.sql>> >>
                     ELSE <<>>
         IN  line \o StddevLines(Tail(rest), details, the_limit)

\* check_stddev_limit: the warnings logged
check_stddev_limit(details) ==
    IF IsNone(cfg.standard_deviation_limit) \/ Len(details) = 0 THEN <<>>
    ELSE StddevLines(details, details, Val(cfg.standard_deviation_limit))

----------------------------------------------------------------------------
(* Reporting *)

\* output_stats: the line logged and the headers set on the response
\* (None when no header is set)
output_stats(details, num_duplicates, request_time, has_response) ==
    LET sql_time == SumTimes(details)
        n == Len(details)
    IN  [log |-> IF cfg.log_stats
                 THEN << <<"stats", n, num_duplicates, Millis(sql_time), Millis(request_time)>> >>
                 ELSE <<>>,
         headers |-> IF cfg.header_stats /\ has_response
                     THEN Some([num_queries |-> n,
                                sql_time |-> Millis(sql_time),
                                request_time |-> Millis(request_time),
                                duplicates |-> num_duplicates])
                     ELSE None]

\* the loop of output_sql from entry idx on: traceback.format_list(None) raises
\* TypeError after the entry's first line is logged
RECURSIVE SqlLines(_, _)
SqlLines(details, idx) ==
    IF idx > Len(details) THEN [log |-> <<>>, raised |-> FALSE]
    ELSE LET entry == details[idx]
             first == <<"sql", idx, Millis(entry.time), entry.sql>>
         IN  IF IsNone(entry.tb) THEN [log |-> <<first>>, raised |-> TRUE]
             ELSE LET tb_list == Val(entry.tb)
                      latest == IF tb_list # <<>> THEN tb_list[Len(tb_list)] ELSE <<>>
                      rest == SqlLines(details, idx + 1)
                  IN  [log |-> <<first, <<"sql traceback", idx, latest>> >> \o rest.log,
                       raised |-> rest.raised]

\* output_sql: the lines logged, and whether it raised
output_sql(details) ==
    IF ~cfg.log_all_queries THEN [log |-> <<>>, raised |-> FALSE]
    ELSE SqlLines(details, 1)

\* the five calls process_response and _wrapped make on a slice of the query log
Analysis(slice, request_time, has_response) ==
    LET details == get_query_details(slice)
        dups == check_duplicates(details)
        stats == output_stats(details, dups.n, request_time, has_response)
        sqls == output_sql(details)
    IN  [log |-> dups.log \o check_stddev_limit(details) \o check_absolute_limit(details)
                   \o stats.log \o sqls.log,
         headers |-> stats.headers,
         raised |-> sqls.raised]

----------------------------------------------------------------------------
(* The state of the hooks before any request, and of no function under analysis *)

Threads == {"t1", "t2"}
MainThread == "t1"

NoOutcome == [response |-> None, wrapped |-> None]

HooksAtRest ==
    /\ queries = <<>>
    /\ local = [t \in Threads |-> None]
    /\ layers = 0
    /\ now = 0
    /\ phase = [t \in Threads |-> "idle"]
    /\ wrap = None
    /\ last = NoOutcome

NoFunction == pc = "none" /\ arg = <<>> /\ ret = <<>>

----------------------------------------------------------------------------
(* Normalisation applied to a text, and again to its result *)

InitNorm ==
    /\ cfg = DefaultCfg
    /\ pc = "call"
    /\ arg \in SeqsUpTo(SqlChars, MaxSqlLen)
    /\ ret = <<>>
    /\ HooksAtRest

Normalize ==
    /\ pc = "call"
    /\ pc' = "normalized"
    /\ ret' = <<sql_id_sub(arg)>>
    /\ UNCHANGED <<cfg, arg, hookVars>>

NormalizeAgain ==
    /\ pc = "normalized"
    /\ pc' = "return"
    /\ ret' = Append(ret, sql_id_sub(ret[1]))
    /\ UNCHANGED <<cfg, arg, hookVars>>

NextNorm == Normalize \/ NormalizeAgain

SpecNorm == InitNorm /\ [][NextNorm]_vars

\* C9: normalising the canonical form of any SQL text yields it unchanged
NormalizationIdempotent == pc = "return" => ret[2] = ret[1]

\* a text in which a match was replaced has been normalised twice
NormalizationWitness == pc = "return" /\ ret[1] # arg /\ Len(ret[1]) > 3

----------------------------------------------------------------------------
(* should_include applied to a frame path *)

Prefixes == {<<"a">>, <<"a", "b">>, <<"b">>}

InitTb ==
    /\ \E roots \in SeqsUpTo(Prefixes, MaxRoots), excludes \in SeqsUpTo(Prefixes, MaxRoots) :
         cfg = [DefaultCfg EXCEPT !.traceback_roots = roots,
                                  !.traceback_roots_exclude = excludes]
    /\ pc = "call"
    /\ arg \in SeqsUpTo(PathChars, MaxPathLen)
    /\ ret = <<>>
    /\ HooksAtRest

ShouldInclude ==
    /\ pc = "call"
    /\ pc' = "return"
    /\ ret' = <<should_include(arg)>>
    /\ UNCHANGED <<cfg, arg, hookVars>>

NextTb == ShouldInclude

SpecTb == InitTb /\ [][NextTb]_vars

HasPrefixIn(path, prefixes) == \E i \in 1..Len(prefixes) : StartsWith(path, prefixes[i])

\* a frame is kept iff its path is not the module's own file and either there
\* are no roots, or some root is a prefix of it and no exclude is
ShouldIncludeIff ==
    pc = "return" =>
      (ret[1] <=> /\ ~IsModuleFile(arg)
                  /\ \/ cfg.traceback_roots = <<>>
                     \/ /\ HasPrefixIn(arg, cfg.traceback_roots)
                        /\ ~HasPrefixIn(arg, cfg.traceback_roots_exclude))

\* roots ["a"], excludes ["ab"]: "aa" kept, "aba" and "ba" dropped; and with the
\* overlapping roots ["a", "ab"] too
ShouldIncludeScenario ==
    (/\ pc = "return"
     /\ cfg.traceback_roots \in {<< <<"a">> >>, << <<"a">>, <<"a", "b">> >>}
     /\ cfg.traceback_roots_exclude = << <<"a", "b">> >>)
    => /\ arg = <<"a", "a">> => ret[1]
       /\ arg = <<"a", "b", "a">> => ~ret[1]
       /\ arg = <<"b", "a">> => ~ret[1]

\* C8: should_include keeps a frame iff its path is not the module's own file and
\* either traceback_roots is empty or some root is a prefix of the path and no
\* exclude is; so the scenario's frames are kept and dropped as stated, also with
\* overlapping roots
ShouldIncludeHolds == ShouldIncludeIff /\ ShouldIncludeScenario

\* a frame under two overlapping roots and under an exclude was dropped
ShouldIncludeWitness ==
    /\ pc = "return"
    /\ cfg.traceback_roots = << <<"a">>, <<"a", "b">> >>
    /\ cfg.traceback_roots_exclude = << <<"a", "b">> >>
    /\ arg = <<"a", "b", "a">>
    /\ ~ret[1]

----------------------------------------------------------------------------
(* check_duplicates applied to a sequence of normalised queries *)

RawSqls == {<<"x", "=", "1">>, <<"x", "=", "1", "1">>, <<"=", "1">>, <<"x">>}
CanonSqls == {sql_id_sub(s) : s \in RawSqls}

InitDup ==
    /\ \E dup \in BOOLEAN : cfg = [DefaultCfg EXCEPT !.log_duplicates = dup]
    /\ pc = "call"
    /\ arg \in SeqsUpTo({QueryInfo(sql, 1, None) : sql \in CanonSqls}, MaxQueries)
    /\ ret = <<>>
    /\ HooksAtRest

CheckDuplicates ==
    /\ pc = "call"
    /\ pc' = "return"
    /\ ret' = check_duplicates(arg)
    /\ UNCHANGED <<cfg, arg, hookVars>>

NextDup == CheckDuplicates

SpecDup == InitDup /\ [][NextDup]_vars

\* the sum over the canonical SQLs in S of (count - 1), for those with count > 1
RECURSIVE ExcessOver(_, _)
ExcessOver(S, details) ==
    IF S = {} THEN 0
    ELSE LET sql == CHOOSE x \in S : TRUE
             count == Cardinality({i \in 1..Len(details) : details[i].sql = sql})
         IN  (IF count > 1 THEN count - 1 ELSE 0) + ExcessOver(S \ {sql}, details)

NoRepeat(details) ==
    \A i, j \in 1..Len(details) : i # j => details[i].sql # details[j].sql

\* C1: check_duplicates returns the sum over the groups with more than one member
\* of (member count - 1); 0 when no canonical SQL occurs twice
DuplicateCountIsExcess ==
    pc = "return" =>
      /\ ret.n = ExcessOver({arg[i].sql : i \in 1..Len(arg)}, arg)
      /\ NoRepeat(arg) => ret.n = 0

\* two groups with more than one member were counted
DuplicateCountWitness ==
    /\ pc = "return"
    /\ Len(arg) = 4
    /\ Cardinality({arg[i].sql : i \in 1..Len(arg)}) = 2
    /\ arg[1].sql = arg[3].sql
    /\ arg[2].sql = arg[4].sql
    /\ arg[1].sql # arg[2].sql
    /\ ret.n = 2

----------------------------------------------------------------------------
(* check_absolute_limit applied to a sequence of query times *)

Limits == {None, Some(-1), Some(0), Some(1)}

TimedDetails == SeqsUpTo({QueryInfo(<<"x">>, t, None) : t \in 0..MaxTime}, MaxQueries)

InitAbs ==
    /\ \E l \in Limits : cfg = [DefaultCfg EXCEPT !.absolute_limit = l]
    /\ pc = "call"
    /\ arg \in TimedDetails
    /\ ret = <<>>
    /\ HooksAtRest

CheckAbsoluteLimit ==
    /\ pc = "call"
    /\ pc' = "return"
    /\ ret' = check_absolute_limit(arg)
    /\ UNCHANGED <<cfg, arg, hookVars>>

NextAbs == CheckAbsoluteLimit

SpecAbs == InitAbs /\ [][NextAbs]_vars

\* the times, in order, of the queries a sequence of warnings is about
WarnedMillis(lines) == [k \in 1..Len(lines) |-> lines[k][2]]

\* the queries whose elapsed time, in milliseconds, is strictly above limit_ms
\* (time / UnitsPerMs > limit_ms)
AboveMs(details, limit_ms) == SelectSeq(details, LAMBDA qi : qi.time > limit_ms * UnitsPerMs)

\* C6: one warning for exactly the queries with elapsed > absolute_limit / 1000,
\* unless absolute_limit is None; 0 flags the queries with elapsed > 0, a negative
\* limit all of them
AbsoluteLimitFlagsExactly ==
    pc = "return" =>
      /\ IsNone(cfg.absolute_limit) => ret = <<>>
      /\ ~IsNone(cfg.absolute_limit) =>
           LET over == AboveMs(arg, Val(cfg.absolute_limit))
           IN  /\ Len(ret) = Len(over)
               /\ WarnedMillis(ret) = [k \in 1..Len(over) |-> Millis(over[k].time)]
               /\ Val(cfg.absolute_limit) = 0 =>
                    Len(ret) = Cardinality({i \in 1..Len(arg) : arg[i].time > 0})
               /\ Val(cfg.absolute_limit) < 0 => Len(ret) = Len(arg)

\* with absolute_limit = 0, a query of elapsed 0 was passed and one above 0 flagged
AbsoluteLimitWitness ==
    /\ pc = "return"
    /\ cfg.absolute_limit = Some(0)
    /\ Len(arg) = 2
    /\ arg[1].time = 0
    /\ arg[2].time = 1
    /\ Len(ret) = 1

----------------------------------------------------------------------------
(* check_stddev_limit applied to a sequence of query times *)

InitStd ==
    /\ \E l \in Limits : cfg = [DefaultCfg EXCEPT !.standard_deviation_limit = l]
    /\ pc = "call"
    /\ arg \in TimedDetails
    /\ ret = <<>>
    /\ HooksAtRest

CheckStddevLimit ==
    /\ pc = "call"
    /\ pc' = "return"
    /\ ret' = check_stddev_limit(arg)
    /\ UNCHANGED <<cfg, arg, hookVars>>

NextStd == CheckStddevLimit

SpecStd == InitStd /\ [][NextStd]_vars

\* C7: the query of a one-query request is never flagged, whatever the limit
SingleQueryNeverFlagged == (pc = "return" /\ Len(arg) = 1) => ret = <<>>

\* a one-query request was checked under a negative limit
SingleQueryWitness ==
    /\ pc = "return"
    /\ Len(arg) = 1
    /\ arg[1].time > 0
    /\ cfg.standard_deviation_limit = Some(-1)

----------------------------------------------------------------------------
(* Query execution and the patch of the cursor *)

\* the frames of the stack when a query executes: the caller, then tb_wrap's wrapper
CallStack == << <<"a", "a">>, ModuleFile >>

\* [f for f in tb if should_include(f[0])]
FilteredStack == SelectSeq(CallStack, should_include)

\* patch_cursor: execute becomes tb_wrap(the current execute)
patch_cursor(n) == n + 1

\* the module-level patch_cursor call, at load
LayersAfterLoad(c) == IF c.enabled /\ c.log_tracebacks THEN patch_cursor(0) ELSE 0

\* thread t executes a query: the ORM appends its record and, when execute is
\* wrapped, the wrapper stores the filtered stack in it
ExecuteQuery(t, sql, time) ==
    /\ phase[t] # "idle" \/ (t = MainThread /\ ~IsNone(wrap))
    /\ Len(queries) < MaxLog
    /\ queries' = Append(queries, [sql |-> sql, time |-> time,
                                   tb |-> IF layers > 0 THEN Some(FilteredStack) ELSE None])
    /\ UNCHANGED <<cfg, fnVars, local, layers, now, phase, wrap, last>>

\* time passes
Tick ==
    /\ now < MaxClock
    /\ now' = now + 1
    /\ UNCHANGED <<cfg, fnVars, queries, local, layers, phase, wrap, last>>

----------------------------------------------------------------------------
(* The request hooks *)

\* the namespace of _local that thread t sees, were _local one plain object
SharedSlot(t) == MainThread

\* the namespace of _local = threading.local() that thread t sees: its own
Slot(t) == t

\* __init__ raises MiddlewareNotUsed unless enabled: the hooks are installed
Installed == cfg.enabled

Outcome(t, own, analysed, lo, hi, request_time, a) ==
    [thread |-> t, own |-> own, analysed |-> analysed, lo |-> lo, hi |-> hi,
     request_time |-> request_time, log |-> a.log, headers |-> a.headers,
     raised |-> a.raised, returned |-> ~a.raised]

NoAnalysis == [log |-> <<>>, headers |-> None, raised |-> FALSE]

ProcessRequest(t) ==
    /\ Installed
    /\ phase[t] = "idle"
    /\ local' = [local EXCEPT ![Slot(t)] =
                   Some([request_start |-> now, conn_queries_len |-> Len(queries)])]
    /\ phase' = [phase EXCEPT ![t] = "hooked"]
    /\ UNCHANGED <<cfg, fnVars, queries, layers, now, wrap, last>>

\* a request reaches the response phase without its process_request having run
SkipProcessRequest(t) ==
    /\ Installed
    /\ phase[t] = "idle"
    /\ phase' = [phase EXCEPT ![t] = "unhooked"]
    /\ UNCHANGED <<cfg, fnVars, queries, local, layers, now, wrap, last>>

\* a request ends without reaching process_response
AbandonRequest(t) ==
    /\ phase[t] # "idle"
    /\ phase' = [phase EXCEPT ![t] = "idle"]
    /\ UNCHANGED <<cfg, fnVars, queries, local, layers, now, wrap, last>>

ProcessResponse(t) ==
    /\ Installed
    /\ phase[t] # "idle"
    /\ phase' = [phase EXCEPT ![t] = "idle"]
    /\ IF IsNone(local[Slot(t)])
       THEN /\ last' = [last EXCEPT !.response =
                          Some(Outcome(t, phase[t] = "hooked", FALSE, 0, 0, 0, NoAnalysis))]
            /\ UNCHANGED local
       ELSE LET l == Val(local[Slot(t)])
                request_time == now - l.request_start
                slice == SubSeq(queries, l.conn_queries_len + 1, Len(queries))
                a == Analysis(slice, request_time, TRUE)
            IN  /\ last' = [last EXCEPT !.response =
                              Some(Outcome(t, phase[t] = "hooked", TRUE, l.conn_queries_len,
                                           Len(queries), request_time, a))]
                /\ local' = IF a.raised THEN local ELSE [local EXCEPT ![Slot(t)] = None]
    /\ UNCHANGED <<cfg, fnVars, queries, layers, now, wrap>>

----------------------------------------------------------------------------
(* inspect_queries: a call of _wrapped on the main thread *)

Doit == cfg.enabled /\ cfg.log_tracebacks

WrappedEnter ==
    /\ IsNone(wrap)
    /\ IF Doit
       THEN /\ layers < MaxLayers
            /\ layers' = patch_cursor(layers)
            /\ wrap' = Some([doit |-> TRUE, start |-> now, conn_queries_len |-> Len(queries)])
       ELSE /\ wrap' = Some([doit |-> FALSE, start |-> 0, conn_queries_len |-> 0])
            /\ UNCHANGED layers
    /\ UNCHANGED <<cfg, fnVars, queries, local, now, phase, last>>

\* thefunc raises: _wrapped reports nothing
WrappedRaise ==
    /\ ~IsNone(wrap)
    /\ wrap' = None
    /\ UNCHANGED <<cfg, fnVars, queries, local, layers, now, phase, last>>

\* thefunc returns
WrappedReturn ==
    /\ ~IsNone(wrap)
    /\ wrap' = None
    /\ LET w == Val(wrap)
       IN  IF w.doit
           THEN LET delta == now - w.start
                    slice == SubSeq(queries, w.conn_queries_len + 1, Len(queries))
                    a == Analysis(slice, delta, FALSE)
                IN  last' = [last EXCEPT !.wrapped =
                               Some(Outcome(MainThread, TRUE, TRUE, w.conn_queries_len,
                                            Len(queries), delta, a))]
           ELSE last' = [last EXCEPT !.wrapped =
                           Some(Outcome(MainThread, TRUE, FALSE, 0, 0, 0, NoAnalysis))]
    /\ UNCHANGED <<cfg, fnVars, queries, local, layers, now, phase>>

----------------------------------------------------------------------------
(* Requests served concurrently on two threads *)

HookCfg == [DefaultCfg EXCEPT !.enabled = TRUE, !.log_duplicates = TRUE]

InitHooks ==
    /\ cfg = HookCfg
    /\ NoFunction
    /\ queries = <<>>
    /\ local = [t \in Threads |-> None]
    /\ layers = LayersAfterLoad(cfg)
    /\ now = 0
    /\ phase = [t \in Threads |-> "idle"]
    /\ wrap = None
    /\ last = NoOutcome

NextHooks ==
    \/ \E t \in Threads : ProcessRequest(t)
    \/ \E t \in Threads : SkipProcessRequest(t)
    \/ \E t \in Threads : AbandonRequest(t)
    \/ \E t \in Threads : ProcessResponse(t)
    \/ \E t \in Threads : ExecuteQuery(t, Some(<<"x", "=", "1">>), 1)
    \/ Tick

SpecHooks == InitHooks /\ [][NextHooks]_vars

\* C2: a process_response for a request whose own process_request never ran
\* performs no analysis, raises nothing and returns the response
UnhookedResponseSkipsAnalysis ==
    (~IsNone(last.response) /\ ~Val(last.response).own) =>
      LET o == Val(last.response)
      IN  ~o.analysed /\ o.log = <<>> /\ IsNone(o.headers) /\ ~o.raised /\ o.returned

\* a thread's recorded offset and start time are set by its own
\* process_request to the current log length and time, change in no step of
\* another thread, and its process_response analyses the records of the log from
\* that offset to the current length
OwnSliceStep(t) ==
    /\ local'[t] # local[t] => phase'[t] # phase[t]
    /\ ProcessRequest(t) =>
         local'[t] = Some([request_start |-> now, conn_queries_len |-> Len(queries)])
    /\ ProcessResponse(t) =>
         LET o == Val(last'.response)
         IN  IF IsNone(local[t]) THEN ~o.analysed
             ELSE LET l == Val(local[t])
                  IN  /\ o.analysed
                      /\ o.lo = l.conn_queries_len
                      /\ o.hi = Len(queries)
                      /\ o.log = Analysis(SubSeq(queries, l.conn_queries_len + 1, Len(queries)),
                                          now - l.request_start, TRUE).log

\* C10: under every interleaving, process_response analyses the log records from
\* the offset its own thread's process_request recorded to the current length, and
\* no step of another thread changes or deletes a thread's recorded offset and
\* start time
EachRequestAnalysesOwnSlice == [][\A t \in Threads : OwnSliceStep(t)]_vars

\* a thread analysed the second record of the log alone while the other thread
\* was in a request that began at offset 0
OwnSliceWitness ==
    /\ ~IsNone(last.response)
    /\ Val(last.response).thread = "t2"
    /\ Val(last.response).analysed
    /\ Val(last.response).lo = 1
    /\ Val(last.response).hi = 2
    /\ phase["t1"] = "hooked"
    /\ ~IsNone(local["t1"])
    /\ Val(local["t1"]).conn_queries_len = 0

----------------------------------------------------------------------------
(* The hooks and a wrapped function on one thread, under every configuration *)

\* every check is on; the flags that gate the patch, the wrapper, the dump of all
\* queries and the headers vary
WrapCfgs ==
    {[DefaultCfg EXCEPT !.enabled = e, !.log_tracebacks = tb, !.log_all_queries = all,
                        !.header_stats = hd, !.log_duplicates = TRUE,
                        !.absolute_limit = Some(0), !.standard_deviation_limit = Some(0)] :
       e \in BOOLEAN, tb \in BOOLEAN, all \in BOOLEAN, hd \in BOOLEAN}

InitWrap ==
    /\ cfg \in WrapCfgs
    /\ NoFunction
    /\ queries = <<>>
    /\ local = [t \in Threads |-> None]
    /\ layers = LayersAfterLoad(cfg)
    /\ now = 0
    /\ phase = [t \in Threads |-> "idle"]
    /\ wrap = None
    /\ last = NoOutcome

NextWrap ==
    \/ ProcessRequest(MainThread)
    \/ SkipProcessRequest(MainThread)
    \/ AbandonRequest(MainThread)
    \/ ProcessResponse(MainThread)
    \/ \E sql \in {Some(<<"x", "=", "1">>), None} : ExecuteQuery(MainThread, sql, 1)
    \/ WrappedEnter
    \/ WrappedRaise
    \/ WrappedReturn
    \/ Tick

SpecWrap == InitWrap /\ [][NextWrap]_vars

\* C3: a query execution passes through at most one tb_wrap layer
PatchedAtMostOnce == layers <= 1

\* C4: with enabled = true, a wrapped function that executed the queries a request
\* executed, in the same time, logged what process_response logged and set no header
WrappedMatchesHooks ==
    (/\ cfg.enabled
     /\ ~IsNone(last.response)
     /\ ~IsNone(last.wrapped)
     /\ Val(last.response).analysed
     /\ Val(last.response).lo = Val(last.wrapped).lo
     /\ Val(last.response).hi = Val(last.wrapped).hi
     /\ Val(last.response).request_time = Val(last.wrapped).request_time)
    => /\ Val(last.wrapped).log = Val(last.response).log
       /\ IsNone(Val(last.wrapped).headers)

\* C5: process_response raises nothing and returns the response, and a wrapped
\* function returns the callable's result
NeverChangesOutcome ==
    /\ ~IsNone(last.response) => (~Val(last.response).raised /\ Val(last.response).returned)
    /\ ~IsNone(last.wrapped) => (~Val(last.wrapped).raised /\ Val(last.wrapped).returned)

====
